---- MODULE Spec2Model ----
(***************************************************************************)
(* Model of the Omlet coop Homebridge plugin (src/index.js, lines 1-1099): *)
(* the platform's session state (token, re-login circuit breaker) and the  *)
(* accessory's poll cache, commands and confirmation timers.               *)
(*                                                                         *)
(* Node.js runs every callback to completion and drains the promise        *)
(* continuations before the next I/O event, so an async function is cut    *)
(* only at the awaits of a network call (getDeviceStatus, sendAction,      *)
(* performLogin).  Every async invocation is a task; one action is the     *)
(* code that runs between two network calls of one task.                   *)
(***************************************************************************)
EXTENDS Bags, FiniteSets, Integers, Sequences, TLC

\* ------------------------------------------------------------------ bounds
MaxTasks == 2       \* async invocations alive at the same time
MaxVer == 2         \* moves of the physical device while tokens stay valid
MaxAuthVer == 0     \* moves of the physical device while tokens get rejected
MaxShapeVer == 0    \* moves of the physical device while the vendor answers
                    \*   bodies of an unexpected shape
MaxRetryVer == 1    \* moves of the physical device in SpecRetry
MaxToken == 2       \* tokens the vendor issues (the first is token 1)
MaxTimers == 1      \* confirmation timers pending at the same time
MaxListed == 2      \* devices the vendor lists
MaxInterval == 305  \* largest config.pollInterval tried, besides 10000

\* --------------------------------------------------------- program constants
maxReloginAttempts == 3

\* ------------------------------------------------------------------- state
VARIABLES
    credentials,            \* this.email && this.password
    currentToken,           \* platform.currentToken
    bearerToken,            \* platform.bearerToken
    storage,                \* bearerToken and deviceId in
                            \*   omlet-coop-tokens.json
    deviceId,               \* platform.deviceId
    pollInterval,           \* platform.pollInterval
    config,                 \* bearerToken, deviceId and pollInterval of the
                            \*   platform's config
    phase,                  \* position of the constructor and of the
                            \*   didFinishLaunching handler
    listing,                \* the response GET /group was answered with
    yielded,                \* the devices discoverAllDevices resolved with
    authFailedPermanently,  \* platform.authFailedPermanently
    reloginAttempts,        \* platform.reloginAttempts
    cachedStatus,           \* accessory.cachedStatus
    accessoryInfoUpdated,   \* accessory.accessoryInfoUpdated
    hk,                     \* characteristic values last given to updateValue
    pollTimer,              \* accessory.pollTimer is armed
    confirmTimers,          \* pending setTimeout(..., 15000) callbacks
    tasks,                  \* bag of async invocations awaiting a network call
    device,                 \* the physical device behind the vendor API
    issued,                 \* last token the vendor issued
    verLimit,               \* bound on device.ver in this behaviour
    expiry,                 \* the vendor rejects tokens in this behaviour
    malformed,              \* the vendor answers reads with bodies of an
                            \*   unexpected shape in this behaviour
    silent,                 \* the vendor answers nothing in this behaviour
    last,                   \* history: the invocation the last step finished
    lastPoll,               \* history: the response of the pollDeviceState
                            \*   that succeeded last
    loginCalls,             \* history: performLogin calls since the last success
    failedSince,            \* history: failed re-logins since the last success
    optimistic              \* history: device version made by the door
                            \*   command whose optimistic state hk.door
                            \*   shows; -1 once a poll has completed

vars == <<credentials, currentToken, bearerToken, storage, deviceId,
          pollInterval, config, phase, listing, yielded, silent,
          authFailedPermanently, reloginAttempts, cachedStatus,
          accessoryInfoUpdated, hk, pollTimer, confirmTimers, tasks, device,
          issued, verLimit, expiry, malformed, last, lastPoll, loginCalls,
          failedSince, optimistic>>

\* what the platform has settled before the accessory exists
bootVars == <<deviceId, pollInterval, config, phase, listing, yielded>>

envLimits == <<verLimit, expiry, malformed, silent, credentials, bootVars>>
platformVars == <<currentToken, bearerToken, storage,
                  authFailedPermanently, reloginAttempts>>

\* ------------------------------------------------------------------ values
PollKinds == {"first", "tick", "confirm"}
GetterKinds == {"getCurrentDoorState", "getTargetDoorState", "getLightOn",
                "getBatteryLevel"}
CmdKinds == {"setTargetDoorState", "setLightOn"}


\* cachedStatus = null
NullStatus == [door |-> "null", light |-> "null", battery |-> 0 - 1,
               ver |-> 0 - 1, info |-> "null"]

\* the JSON document GET /device/{id} answers with
\* (info: its deviceSerial and state.general.firmwareVersionCurrent)
Snapshot == [door |-> device.door, light |-> device.light,
             battery |-> device.battery, ver |-> device.ver,
             info |-> "real"]

\* the shapes of a 200 body: the whole document, one without
\* state.door.state, one without serial and firmware
Shapes == IF malformed THEN {"whole", "nodoor", "noinfo"} ELSE {"whole"}

Body(shape) ==
    CASE shape = "whole"  -> Snapshot
      [] shape = "nodoor" -> [Snapshot EXCEPT !.door = "null"]
      [] shape = "noinfo" -> [Snapshot EXCEPT !.info = "null"]

NoResp == [status |-> 0, body |-> NullStatus]

NoDone == [kind |-> "none", ok |-> FALSE, ret |-> {}, logins |-> 0,
           reads |-> 0, sends |-> 0, pushes |-> 0, recov |-> "none",
           timers |-> 0]

NewTask(kind, arg, pc) ==
    [kind |-> kind, arg |-> arg, pc |-> pc, tok |-> currentToken,
     resp |-> NoResp, obs |-> 0 - 1, logins |-> 0,
     reads |-> IF pc = "read1" THEN 1 ELSE 0,
     sends |-> IF pc = "act1" THEN 1 ELSE 0,
     recov |-> "none"]

Add(t) == tasks (+) SetToBag({t})
Remove(t) == tasks (-) SetToBag({t})
Replace(t, u) == (tasks (-) SetToBag({t})) (+) SetToBag({u})
Live == BagToSet(tasks)
Room == BagCardinality(tasks) < MaxTasks

\* ------------------------------------------------------- the vendor's side
\* every move of the device is one more version of its state and costs one
\* percent of the batteries
Used(dev) == [dev EXCEPT !.ver = @ + 1, !.battery = @ - 1]

\* POST /device/{id}/action/{action} as the device obeys it
Apply(dev, action) ==
    CASE action = "open"  -> Used([dev EXCEPT !.door = "opening"])
      [] action = "close" -> Used([dev EXCEPT !.door = "closing"])
      [] action = "on"    -> Used([dev EXCEPT !.light = "on"])
      [] action = "off"   -> Used([dev EXCEPT !.light = "off"])

\* what a request that does not end in 200/204 ends in: an HTTP status, or 0
\* for a network error, a timeout or an unparseable body (no statusCode)
\* the same without the timeout and error handlers of the requests
FailuresAnswered == {401, 403, 500}

Failures == {401, 403, 500, 0}

\* those of them the vendor answers with in this behaviour
Answers == {code \in Failures : /\ (code \in {401, 403} => expiry)
                                 /\ (code # 0 => ~silent)}

\* what a login that does not end in 200 ends in
LoginAnswers == {code \in Failures : code # 0 => ~silent}

\* tokens and device ids: none, one that fails validation, the one of
\* the config, the one of the credential store; the vendor's logins issue
\* the tokens 1, 2, ... and its listing names the devices 1, 2, ...
NoToken == 0
BadToken == 0 - 1
ConfigToken == 8
StoredToken == 9
NoDevice == 0
BadDevice == 0 - 1
ConfigDevice == 8
StoredDevice == 9

\* config.pollInterval is missing
Absent == [kind |-> "absent", n |-> 0]

\* no GET /group has been answered
NoListing == [status |-> 0, shape |-> "none", devs |-> << >>]

\* --------------------------------------------------------- pure functions
\* validateToken without its pattern test
ValidateTokenAny(token) == token

\* validateToken: undefined unless the token is alphanumeric
ValidateToken(token) ==
    IF token = NoToken \/ token = BadToken THEN NoToken ELSE token

\* validateDeviceId: undefined unless the id is alphanumeric
ValidateDeviceId(dev) ==
    IF dev = NoDevice \/ dev = BadDevice THEN NoDevice ELSE dev

\* loadStoredCredentials: a stored value that passes validation replaces
\* the configured one (a missing or unreadable file reads as no values)
LoadedToken(configured, stored) ==
    IF stored.bearerToken # NoToken /\ ValidateToken(stored.bearerToken) # NoToken
    THEN ValidateToken(stored.bearerToken) ELSE configured

LoadedDevice(configured, stored) ==
    IF stored.deviceId # NoDevice /\ ValidateDeviceId(stored.deviceId) # NoDevice
    THEN ValidateDeviceId(stored.deviceId) ELSE configured

\* the constructor registers the didFinishLaunching handler
Registered(hasEmailPassword, token, dev) ==
    hasEmailPassword \/ (token # NoToken /\ dev # NoDevice)

\* the documents a list request is answered with: a bare array of groups,
\* {groups: [...]}, a bare array of devices, {data: [devices]}
ListShapes == {"groups", "wrappedGroups", "devices", "data"}

DeviceLists ==
    {ds \in UNION {[1..n -> 1..MaxListed] : n \in 0..MaxListed} :
        \A i, j \in DOMAIN ds : ds[i] = ds[j] => i = j}

ListResponses ==
    {[status |-> 500, shape |-> "none", devs |-> << >>]} \cup
    {[status |-> 200, shape |-> sh, devs |-> ds] :
        sh \in ListShapes, ds \in DeviceLists}

\* discoverAllDevices: the devices of the groups of the response
DiscoverAllDevices(shape, devs) ==
    IF shape \in {"groups", "wrappedGroups"} THEN devs ELSE << >>

\* discoverOmletDevices of the UI server: the array, or the array under
\* data; the elements of an array of groups are taken for devices without
\* an id
DiscoverOmletDevices(shape, devs) ==
    CASE shape \in {"devices", "data"} -> [ok |-> TRUE, devices |-> devs]
      [] shape = "groups" -> [ok |-> TRUE, devices |-> <<NoDevice>>]
      [] OTHER -> [ok |-> FALSE, devices |-> << >>]

\* autoDiscoverDevice takes the device when there is exactly one
AutoDiscovered(devices, dev) == IF Len(devices) = 1 THEN devices[1] ELSE dev

\* config.pollInterval: absent, a text without leading digits, an
\* integer, a string of digits, a number with a fraction
IntervalInputs ==
    {Absent, [kind |-> "text", n |-> 0]} \cup
    {[kind |-> k, n |-> n] : k \in {"int", "digits", "fraction"},
                            n \in ((0 - 2)..MaxInterval) \cup {10000}}

\* parseInt: NaN, or the integer the value starts with
ParseInt(value) ==
    IF value.kind \in {"absent", "text"} THEN [nan |-> TRUE, n |-> 0]
    ELSE [nan |-> FALSE, n |-> value.n]

\* validatePollInterval without the upper limit
ValidatePollIntervalNoMax(value) ==
    LET interval == ParseInt(value) IN
    IF interval.nan THEN 30 * 1000
    ELSE IF interval.n < 30 THEN 30 * 1000
    ELSE interval.n * 1000

\* validatePollInterval
ValidatePollInterval(value) ==
    LET interval == ParseInt(value) IN
    IF interval.nan THEN 30 * 1000
    ELSE IF interval.n < 30 THEN 30 * 1000
    ELSE IF interval.n > 300 THEN 300 * 1000
    ELSE interval.n * 1000

\* a save that writes the token only
SaveStoredCredentialsTokenOnly(token, dev) ==
    [bearerToken |-> token, deviceId |-> storage.deviceId]

\* saveStoredCredentials: the file gets the token and the device id
SaveStoredCredentials(token, dev) ==
    [bearerToken |-> token, deviceId |-> dev]

IsAuthError(code) == code = 401 \/ code = 403

\* what state.door.state can be: the five strings of stateMap and one
\* that stateMap does not have
DoorStrings == {"open", "closed", "opening", "closing", "stopping",
                "jammed"}

\* stateMap[doorState] without the ?? STOPPED
DoorStateMapStrict(doorState) ==
    CASE doorState = "open"     -> "OPEN"
      [] doorState = "closed"   -> "CLOSED"
      [] doorState = "opening"  -> "OPENING"
      [] doorState = "closing"  -> "CLOSING"
      [] doorState = "stopping" -> "STOPPED"
      [] OTHER                  -> "NONE"

DoorStateMap(doorState) ==
    CASE doorState = "open"     -> "OPEN"
      [] doorState = "closed"   -> "CLOSED"
      [] doorState = "opening"  -> "OPENING"
      [] doorState = "closing"  -> "CLOSING"
      [] doorState = "stopping" -> "STOPPED"
      [] OTHER                  -> "STOPPED"

TargetOf(doorState) ==
    IF doorState = "open" \/ doorState = "opening" THEN "OPEN" ELSE "CLOSED"

IsOn(lightState) == lightState = "on" \/ lightState = "onpending"

\* what a getter answers from the cache: {} when it throws, else {value}
GetterRet(g, status) ==
    CASE g = "getCurrentDoorState" ->
            IF status.door = "null" THEN {} ELSE {DoorStateMap(status.door)}
      [] g = "getTargetDoorState" -> {TargetOf(status.door)}
      [] g = "getLightOn" ->
            IF status.light = "null" THEN {} ELSE {IsOn(status.light)}
      [] g = "getBatteryLevel" ->
            IF status.battery < 0 THEN {} ELSE {status.battery}

\* the characteristic values pushStateToHomeKit leaves behind
Pushed(status, old) ==
    IF status = NullStatus THEN old
    ELSE [door |-> IF status.door = "null" THEN old.door
                   ELSE DoorStateMap(status.door),
          target |-> IF status.door = "null" THEN old.target
                     ELSE TargetOf(status.door),
          light |-> IF status.light = "null" THEN old.light
                    ELSE IsOn(status.light),
          battery |-> IF status.battery < 0 THEN old.battery
                      ELSE status.battery,
          info |-> old.info]

\* SerialNumber and FirmwareRevision after the first try block of
\* pollDeviceState: status.deviceSerial || this.deviceId, and
\* firmwareVersionCurrent || '0.0.0', unless accessoryInfoUpdated
InfoUpdate(old, status, updated) ==
    IF updated THEN old
    ELSE [old EXCEPT !.info = IF status.info = "null" THEN "placeholder"
                              ELSE "real"]

\* a getter that polls whatever the cache holds
ColdStartAlways(status) == TRUE

\* if (!this.cachedStatus) await this.pollDeviceState()
ColdStart(status) == status = NullStatus

\* a catch block that drops the snapshot
CatchStatusDropped(old) == NullStatus

\* the catch blocks of pollDeviceState do not assign cachedStatus
CatchStatus(old) == old

\* a rejection that escapes the interval callback and ends the process
SwallowedNot(armed) == FALSE

\* the callers of pollDeviceState and of the setters catch what is thrown:
\* the interval timer stays as it is
Swallowed(armed) == armed

\* a cache that keeps the old snapshot
StoreStatusKept(old, status) == old

\* a cache that is updated field by field and misses some
StoreStatusTorn(old, status) ==
    [old EXCEPT !.door = status.door, !.ver = status.ver]

\* this.cachedStatus = status
StoreStatus(old, status) == status

\* a command whose retry recovers again
RecoversOnRetry(pc) == pc \in {"read1", "act1", "act2"}

\* a retry that recovers again
RecoversAlways(pc) == TRUE

\* only the catch block of the first attempt calls handleAuthError
Recovers(pc) == pc = "read1" \/ pc = "act1"

\* handleAuthError that tries to log in without credentials
AuthErrorBranchRetries ==
    IF authFailedPermanently THEN "throw" ELSE "relogin"

\* handleAuthError without its first check
AuthErrorBranchUnchecked ==
    IF ~credentials THEN "nocreds" ELSE "relogin"

\* the three ways into handleAuthError
AuthErrorBranch ==
    IF authFailedPermanently THEN "throw"
    ELSE IF ~credentials THEN "nocreds"
    ELSE "relogin"

\* a successful re-login that re-arms the circuit breaker
ReloginSuccessRearms ==
    [attempts |-> 0, failed |-> FALSE]

\* handleAuthError after login() resolved
ReloginSuccess ==
    [attempts |-> 0, failed |-> authFailedPermanently]

\* handleAuthError after login() rejected
ReloginFailure ==
    [attempts |-> reloginAttempts,
     failed |-> IF reloginAttempts >= maxReloginAttempts
                THEN TRUE ELSE authFailedPermanently]

\* the optimistic CurrentDoorState of a door command
NewCurrentState(action) == IF action = "open" THEN "OPENING" ELSE "CLOSING"

\* an optimistic state that is shown before sendAction has settled
OptimisticEager(t, ok, old) ==
    IF t.kind = "setTargetDoorState"
    THEN [old EXCEPT !.door = NewCurrentState(t.arg)]
    ELSE old

\* the characteristics after a sendAction of command t settled: the
\* updateValue of setTargetDoorState follows the awaited sendAction inside
\* the try block, and setLightOn has none
Optimistic(t, ok, old) ==
    IF ok /\ t.kind = "setTargetDoorState"
    THEN [old EXCEPT !.door = NewCurrentState(t.arg)]
    ELSE old

\* a retry that reuses the token its invocation started with
RetryTokenCaptured(t, current) == t.tok

\* the token of a retried request: getDeviceStatus and sendAction call
\* platform.getCurrentToken() each time they are called
RetryToken(t, current) == current

\* --------------------------------------------------------------- finishing
Finish(t, ok, ret, pushes, timers, recov) ==
    /\ tasks' = Remove(t)
    /\ pollTimer' = IF ok THEN pollTimer ELSE Swallowed(pollTimer)
    /\ last' = [kind |-> t.kind, ok |-> ok, ret |-> ret, logins |-> t.logins,
                reads |-> t.reads, sends |-> t.sends, pushes |-> pushes,
                recov |-> recov, timers |-> timers]

\* ---------------------------------------------------------------- actions
\* a step that finishes no invocation
Quiet == last' = NoDone

\* startPolling: the setInterval callback starts pollDeviceState
Tick ==
    /\ pollTimer
    /\ Room
    /\ tasks' = Add(NewTask("tick", "-", "read1"))
    /\ Quiet
    /\ UNCHANGED <<platformVars, cachedStatus, accessoryInfoUpdated, hk,
                   pollTimer, confirmTimers, device, issued, envLimits,
                   loginCalls, failedSince, optimistic, lastPoll>>

\* the 15 s timer of a command fires and starts pollDeviceState
ConfirmFire ==
    /\ confirmTimers > 0
    /\ Room
    /\ confirmTimers' = confirmTimers - 1
    /\ tasks' = Add(NewTask("confirm", "-", "read1"))
    /\ Quiet
    /\ UNCHANGED <<platformVars, cachedStatus, accessoryInfoUpdated, hk,
                   pollTimer, device, issued, envLimits, loginCalls,
                   failedSince, optimistic, lastPoll>>

\* stopPolling: clearInterval
StopPolling ==
    /\ pollTimer
    /\ pollTimer' = FALSE
    /\ Quiet
    /\ UNCHANGED <<platformVars, cachedStatus, accessoryInfoUpdated, hk,
                   confirmTimers, tasks, device, issued, envLimits,
                   loginCalls, failedSince, optimistic, lastPoll>>

\* getCurrentDoorState, getTargetDoorState, getLightOn, getBatteryLevel:
\* without a snapshot
\* they start pollDeviceState; with one they answer GetterRet(g,
\* cachedStatus) at once and change nothing
Get(g) ==
    /\ IF ColdStart(cachedStatus)
       THEN /\ Room
            /\ tasks' = Add(NewTask(g, "-", "read1"))
            /\ Quiet
       ELSE UNCHANGED <<tasks, last>>
    /\ UNCHANGED <<platformVars, cachedStatus, accessoryInfoUpdated, hk,
                   pollTimer, confirmTimers, device, issued, envLimits,
                   loginCalls, failedSince, optimistic, lastPoll>>

CmdsAlive == {t \in Live : t.kind \in CmdKinds}

\* setTargetDoorState(value) and setLightOn(value) up to their first await
Command(kind, action) ==
    /\ Room
    /\ CmdsAlive = {}
    /\ confirmTimers < MaxTimers
    /\ tasks' = Add(NewTask(kind, action, "act1"))
    /\ Quiet
    /\ UNCHANGED <<platformVars, cachedStatus, accessoryInfoUpdated, hk,
                   pollTimer, confirmTimers, device, issued, envLimits,
                   loginCalls, failedSince, optimistic, lastPoll>>

SetTargetDoorState == \E action \in {"open", "close"} :
                          Command("setTargetDoorState", action)

SetLightOn == \E action \in {"on", "off"} : Command("setLightOn", action)

\* ------------------------------------------------------------- startup
FirstTask(tok) ==
    [kind |-> "first", arg |-> "-", pc |-> "read1", tok |-> tok,
     resp |-> NoResp, obs |-> 0 - 1, logins |-> 0, reads |-> 1, sends |-> 0,
     recov |-> "none"]

\* a startPolling that only arms the timer
ConstructNoFirstPoll(tok) ==
    /\ phase' = "running"
    /\ pollTimer' = TRUE
    /\ tasks' = tasks

\* discoverDevices: the accessory is constructed, startPolling arms the
\* timer and starts the first pollDeviceState
Construct(tok) ==
    /\ phase' = "running"
    /\ pollTimer' = TRUE
    /\ tasks' = SetToBag({FirstTask(tok)})

\* an initialize that sets up the accessory whatever the device id is
AfterTokenAlways(tok, dev, listed) == Construct(tok)

\* the rest of initialize after the token is known and the device id is
\* looked at: list the devices, give up, or set up the accessory
AfterToken(tok, dev, listed) ==
    IF dev # NoDevice THEN Construct(tok)
    ELSE /\ phase' = IF listed THEN "stopped" ELSE "list"
         /\ UNCHANGED <<pollTimer, tasks>>

\* the platform constructor: pollInterval, and the didFinishLaunching
\* handler unless the config has neither credentials nor token and device
Constructor ==
    /\ phase = "new"
    /\ bearerToken' = ValidateToken(config.bearerToken)
    /\ deviceId' = ValidateDeviceId(config.deviceId)
    /\ pollInterval' = ValidatePollInterval(config.pollInterval)
    /\ phase' = IF Registered(credentials, bearerToken', deviceId')
                THEN "launch" ELSE "off"
    /\ Quiet
    /\ UNCHANGED <<currentToken, storage, authFailedPermanently,
                   reloginAttempts, cachedStatus, accessoryInfoUpdated, hk,
                   pollTimer, confirmTimers, tasks, device, issued,
                   verLimit, expiry, malformed, silent, credentials,
                   config, listing, yielded,
                   loginCalls, failedSince, optimistic, lastPoll>>

\* didFinishLaunching: loadStoredCredentials, then initialize up to its
\* first request
DidFinishLaunching ==
    /\ phase = "launch"
    /\ bearerToken' = LoadedToken(bearerToken, storage)
    /\ deviceId' = LoadedDevice(deviceId, storage)
    /\ IF bearerToken' # NoToken
       THEN /\ currentToken' = bearerToken'
            /\ AfterToken(bearerToken', deviceId', FALSE)
       ELSE /\ currentToken' = currentToken
            /\ phase' = IF credentials THEN "login" ELSE "stopped"
            /\ UNCHANGED <<pollTimer, tasks>>
    /\ Quiet
    /\ UNCHANGED <<storage, authFailedPermanently, reloginAttempts,
                   cachedStatus, accessoryInfoUpdated, hk, confirmTimers,
                   device, issued, verLimit, expiry, malformed, silent,
                   credentials, pollInterval, config, listing, yielded,
                   loginCalls, failedSince, optimistic, lastPoll>>

\* initialize after its login() settled
InitializeLoginDone ==
    /\ phase = "login"
    /\ \/ /\ issued < MaxToken
          /\ ~silent
          /\ issued' = issued + 1
          /\ currentToken' = issued + 1
          /\ bearerToken' = issued + 1
          /\ storage' = SaveStoredCredentials(issued + 1, deviceId)
          /\ AfterToken(issued + 1, deviceId, FALSE)
       \/ /\ phase' = "stopped"
          /\ UNCHANGED <<issued, currentToken, bearerToken, storage,
                         pollTimer, tasks>>
    /\ Quiet
    /\ UNCHANGED <<authFailedPermanently, reloginAttempts,
                   cachedStatus, accessoryInfoUpdated, hk, confirmTimers,
                   device, verLimit, expiry, malformed, silent,
                   credentials, deviceId, pollInterval, config, listing,
                   yielded, loginCalls, failedSince, optimistic, lastPoll>>

\* autoDiscoverDevice after discoverAllDevices settled, and the rest of
\* initialize
ListDone ==
    /\ phase = "list"
    /\ \E resp \in ListResponses :
          /\ listing' = resp
          /\ yielded' = IF resp.status = 200
                        THEN DiscoverAllDevices(resp.shape, resp.devs)
                        ELSE << >>
    /\ deviceId' = AutoDiscovered(yielded', deviceId)
    /\ storage' = IF Len(yielded') = 1
                  THEN SaveStoredCredentials(bearerToken, deviceId')
                  ELSE storage
    /\ AfterToken(currentToken, deviceId', TRUE)
    /\ Quiet
    /\ UNCHANGED <<currentToken, bearerToken, authFailedPermanently,
                   reloginAttempts, cachedStatus, accessoryInfoUpdated, hk,
                   confirmTimers, device, issued, verLimit, expiry,
                   malformed, silent, credentials, pollInterval, config,
                   loginCalls, failedSince, optimistic, lastPoll>>

\* ------------------------------------------------- the vendor API answers
Pending(t) == t.resp = NoResp

\* a request that goes out whatever the token is
HasTokenAlways(tok) == TRUE

\* getDeviceStatus and sendAction: if (!token) reject, send nothing
HasToken(tok) == tok # NoToken

\* what the request of task t ends in when it does not end in 200/204:
\* without a token, in the rejection 'No auth token available', which has
\* no statusCode
Rejections(t) == IF HasToken(t.tok) THEN Answers ELSE {0}

\* GET /device/{id} is answered 200 with the device's state of that moment
AnswerRead ==
    \E t \in Live, shape \in Shapes :
        /\ ~silent
        /\ Pending(t)
        /\ HasToken(t.tok)
        /\ t.pc \in {"read1", "read2"}
        /\ tasks' = Replace(t, [t EXCEPT
                        !.resp = [status |-> 200, body |-> Body(shape)]])
        /\ Quiet
        /\ UNCHANGED <<platformVars, cachedStatus, accessoryInfoUpdated, hk,
                       pollTimer, confirmTimers, device, issued, envLimits,
                       loginCalls, failedSince, optimistic, lastPoll>>

\* POST /device/{id}/action/{action} is obeyed and answered 200/204
AnswerAction ==
    \E t \in Live :
        /\ Pending(t)
        /\ HasToken(t.tok)
        /\ t.pc \in {"act1", "act2"}
        /\ ~silent
        /\ device.ver < verLimit
        /\ device' = Apply(device, t.arg)
        /\ tasks' = Replace(t, [t EXCEPT
                        !.resp = [status |-> 200, body |-> NullStatus],
                        !.obs = device.ver + 1])
        /\ Quiet
        /\ UNCHANGED <<platformVars, cachedStatus, accessoryInfoUpdated, hk,
                       pollTimer, confirmTimers, issued, envLimits,
                       loginCalls, failedSince, optimistic, lastPoll>>

\* the door reaches the end of its travel
DoorArrives ==
    /\ device.door \in {"opening", "closing"}
    /\ device.ver < verLimit
    /\ device' = Used([device EXCEPT
                    !.door = IF @ = "opening" THEN "open" ELSE "closed"])
    /\ Quiet
    /\ UNCHANGED <<platformVars, cachedStatus, accessoryInfoUpdated, hk,
                   pollTimer, confirmTimers, tasks, issued, envLimits,
                   loginCalls, failedSince, optimistic, lastPoll>>

\* ------------------------------------------------------ handleAuthError
\* handleAuthError up to its await of login(), called by task t whose
\* request was answered 401/403; the caller's code after a throw or a
\* `false` only logs and rethrows
HandleAuthError(t) ==
    /\ UNCHANGED <<currentToken, bearerToken, storage>>
    /\ CASE AuthErrorBranch = "throw" ->
              /\ UNCHANGED <<authFailedPermanently, reloginAttempts,
                             loginCalls>>
              /\ Finish(t, FALSE, {}, 0, 0, "throw")
         [] AuthErrorBranch = "nocreds" ->
              /\ authFailedPermanently' = TRUE
              /\ UNCHANGED <<reloginAttempts, loginCalls>>
              /\ Finish(t, FALSE, {}, 0, 0, "nocreds")
         [] AuthErrorBranch = "relogin" ->
              /\ reloginAttempts' = reloginAttempts + 1
              /\ UNCHANGED authFailedPermanently
              /\ loginCalls' = loginCalls + 1
              /\ tasks' = Replace(t, [t EXCEPT !.pc = "login",
                                         !.logins = @ + 1,
                                         !.recov = "relogin"])
              /\ Quiet
              /\ UNCHANGED pollTimer

\* the accessory information after pollDeviceState stored the response of
\* task t
Informed(t, old) ==
    IF t.pc = "read1"
    THEN InfoUpdate(old, t.resp.body, accessoryInfoUpdated)
    ELSE old

\* pollDeviceState after its first or second getDeviceStatus settled, and
\* the caller's code after pollDeviceState: the push of the poll loop and
\* of the confirmation timer, the answer of a getter
ReadDone ==
    \E t \in Live :
        /\ t.pc \in {"read1", "read2"}
        /\ \/ /\ t.resp.status = 200
              /\ cachedStatus' = StoreStatus(cachedStatus, t.resp.body)
              /\ accessoryInfoUpdated' =
                    IF t.pc = "read1" THEN TRUE ELSE accessoryInfoUpdated
              /\ optimistic' = 0 - 1
              /\ lastPoll' = t.resp.body
              /\ IF t.kind \in PollKinds
                 THEN /\ hk' = Pushed(cachedStatus', Informed(t, hk))
                      /\ Finish(t, TRUE, {}, 1, 0, t.recov)
                 ELSE /\ hk' = Informed(t, hk)
                      /\ Finish(t, GetterRet(t.kind, cachedStatus') # {},
                                GetterRet(t.kind, cachedStatus'), 0, 0,
                                t.recov)
              /\ UNCHANGED <<platformVars, loginCalls>>
           \/ /\ Pending(t)
              /\ \E code \in Rejections(t) :
                    IF IsAuthError(code) /\ Recovers(t.pc)
                    THEN HandleAuthError(t)
                    ELSE /\ Finish(t, FALSE, {}, 0, 0, t.recov)
                         /\ UNCHANGED <<platformVars, loginCalls>>
              /\ cachedStatus' = CatchStatus(cachedStatus)
              /\ UNCHANGED <<accessoryInfoUpdated, hk, optimistic, lastPoll>>
        /\ UNCHANGED <<confirmTimers, device, issued, envLimits, failedSince>>

\* setTargetDoorState / setLightOn after their first or second sendAction
\* settled
ActDone ==
    \E t \in Live :
        /\ t.pc \in {"act1", "act2"}
        /\ \/ /\ t.resp.status = 200
              /\ hk' = Optimistic(t, TRUE, hk)
              /\ optimistic' = IF t.kind = "setTargetDoorState" THEN t.obs
                               ELSE optimistic
              /\ confirmTimers' =
                    IF t.pc = "act1" THEN confirmTimers + 1 ELSE confirmTimers
              /\ Finish(t, TRUE, {}, 0, IF t.pc = "act1" THEN 1 ELSE 0,
                        t.recov)
              /\ UNCHANGED <<platformVars, loginCalls>>
           \/ /\ Pending(t)
              /\ \E code \in Rejections(t) :
                    IF IsAuthError(code) /\ Recovers(t.pc)
                    THEN HandleAuthError(t)
                    ELSE /\ Finish(t, FALSE, {}, 0, 0, t.recov)
                         /\ UNCHANGED <<platformVars, loginCalls>>
              /\ hk' = Optimistic(t, FALSE, hk)
              /\ UNCHANGED <<optimistic, confirmTimers>>
        /\ UNCHANGED <<cachedStatus, accessoryInfoUpdated, device, issued,
                       envLimits, failedSince, lastPoll>>

\* login() and the rest of handleAuthError after performLogin settled, and
\* the caller's retry of its request when handleAuthError returned true
LoginDone ==
    \E t \in Live :
        /\ t.pc = "login"
        /\ \/ /\ issued < MaxToken
              /\ ~silent
              /\ issued' = issued + 1
              /\ currentToken' = issued + 1
              /\ bearerToken' = issued + 1
              /\ storage' = SaveStoredCredentials(issued + 1, deviceId)
              /\ reloginAttempts' = ReloginSuccess.attempts
              /\ authFailedPermanently' = ReloginSuccess.failed
              /\ failedSince' = 0
              /\ loginCalls' = 0
              /\ tasks' = Replace(t, [t EXCEPT
                            !.pc = IF t.kind \in CmdKinds THEN "act2"
                                   ELSE "read2",
                            !.tok = RetryToken(t, issued + 1),
                            !.reads = IF t.kind \in CmdKinds THEN @ ELSE @ + 1,
                            !.sends = IF t.kind \in CmdKinds THEN @ + 1 ELSE @,
                            !.recov = "loginok"])
              /\ Quiet
              /\ UNCHANGED <<pollTimer, cachedStatus>>
           \/ /\ issued' = issued
              /\ reloginAttempts' = ReloginFailure.attempts
              /\ authFailedPermanently' = ReloginFailure.failed
              /\ failedSince' = failedSince + 1
              /\ cachedStatus' = IF t.kind \in CmdKinds THEN cachedStatus
                                 ELSE CatchStatus(cachedStatus)
              /\ \E code \in LoginAnswers :
                    Finish(t, FALSE, {}, 0, 0,
                           IF IsAuthError(code) THEN "loginfail"
                           ELSE "loginlost")
              /\ UNCHANGED <<currentToken, bearerToken, storage, loginCalls>>
        /\ UNCHANGED <<accessoryInfoUpdated, hk, confirmTimers, device,
                       envLimits, optimistic, lastPoll>>

\* ------------------------------------------------------- specifications
\* the accessory has just been constructed: startPolling armed the timer
\* and its first pollDeviceState awaits getDeviceStatus
InitOf(token, door, rejects, moves, shapes) ==
    /\ credentials \in BOOLEAN
    /\ currentToken = token
    /\ bearerToken = token
    /\ storage = [bearerToken |-> token, deviceId |-> 1]
    /\ deviceId = 1
    /\ pollInterval = 30 * 1000
    /\ config = [bearerToken |-> NoToken, deviceId |-> NoDevice,
                 pollInterval |-> Absent]
    /\ phase = "running"
    /\ listing = NoListing
    /\ yielded = << >>
    /\ silent = FALSE
    /\ authFailedPermanently = FALSE
    /\ reloginAttempts = 0
    /\ cachedStatus = NullStatus
    /\ accessoryInfoUpdated = FALSE
    /\ hk = [door |-> "NONE", target |-> "NONE", light |-> FALSE,
             battery |-> 0, info |-> "placeholder"]
    /\ pollTimer = TRUE
    /\ confirmTimers = 0
    /\ tasks = SetToBag({FirstTask(token)})
    /\ device = [door |-> door, light |-> "off", battery |-> 80,
                 ver |-> 0]
    /\ issued = 1
    /\ verLimit = moves
    /\ expiry = rejects
    /\ malformed = shapes
    /\ last = NoDone
    /\ loginCalls = 0
    /\ failedSince = 0
    /\ optimistic = 0 - 1
    /\ lastPoll = NullStatus

InitFrom(token, rejects, moves, shapes) ==
    InitOf(token, "closed", rejects, moves, shapes)

InitWith(rejects, moves, shapes) == InitFrom(1, rejects, moves, shapes)

\* either the token expires while the device rests, or the device moves
\* while the token stays valid, or the vendor answers reads with bodies
\* that lack the door state
Init == \/ InitWith(TRUE, MaxAuthVer, FALSE)
        \/ InitWith(FALSE, MaxVer, FALSE)
        \/ InitWith(FALSE, MaxShapeVer, TRUE)

Next ==
    \/ Tick
    \/ ConfirmFire
    \/ StopPolling
    \/ \E g \in GetterKinds : Get(g)
    \/ SetTargetDoorState
    \/ SetLightOn
    \/ AnswerRead
    \/ AnswerAction
    \/ DoorArrives
    \/ ReadDone
    \/ ActDone
    \/ LoginDone

Spec == Init /\ [][Next]_vars

\* the platform has been constructed from some config and finds some
\* credential store; once the accessory exists the token expires, so that
\* polls re-login
InitStartWith(moves) ==
    /\ credentials \in BOOLEAN
    /\ config \in [bearerToken : {NoToken, ConfigToken, BadToken},
                    deviceId : {NoDevice, ConfigDevice, BadDevice},
                    pollInterval : {Absent}]
    /\ storage \in [bearerToken : {NoToken, StoredToken, BadToken},
                     deviceId : {NoDevice, StoredDevice, BadDevice}]
    /\ bearerToken = ValidateToken(config.bearerToken)
    /\ deviceId = ValidateDeviceId(config.deviceId)
    /\ pollInterval = ValidatePollInterval(config.pollInterval)
    /\ phase = IF Registered(credentials, bearerToken, deviceId)
               THEN "launch" ELSE "off"
    /\ currentToken = NoToken
    /\ authFailedPermanently = FALSE
    /\ reloginAttempts = 0
    /\ cachedStatus = NullStatus
    /\ accessoryInfoUpdated = FALSE
    /\ hk = [door |-> "NONE", target |-> "NONE", light |-> FALSE,
             battery |-> 0, info |-> "placeholder"]
    /\ pollTimer = FALSE
    /\ confirmTimers = 0
    /\ tasks = EmptyBag
    /\ device = [door |-> "closed", light |-> "off", battery |-> 80,
                 ver |-> 0]
    /\ issued = 0
    /\ verLimit = moves
    /\ expiry = TRUE
    /\ malformed = FALSE
    /\ silent = FALSE
    /\ listing = NoListing
    /\ yielded = << >>
    /\ last = NoDone
    /\ loginCalls = 0
    /\ failedSince = 0
    /\ optimistic = 0 - 1
    /\ lastPoll = NullStatus

InitStart == InitStartWith(MaxAuthVer)

\* a config with token and deviceId; the device obeys once, so that a
\* command schedules its confirmation poll
InitCycle ==
    /\ InitStartWith(MaxRetryVer)
    /\ credentials
    /\ config.bearerToken = ConfigToken
    /\ config.deviceId = ConfigDevice
    /\ storage.deviceId = NoDevice
    /\ storage.bearerToken # BadToken

\* a platform about to be constructed from a config with some pollInterval
InitInterval ==
    /\ credentials \in BOOLEAN
    /\ config \in [bearerToken : {NoToken, ConfigToken},
                    deviceId : {NoDevice, ConfigDevice},
                    pollInterval : IntervalInputs]
    /\ storage = [bearerToken |-> NoToken, deviceId |-> NoDevice]
    /\ bearerToken = NoToken
    /\ deviceId = NoDevice
    /\ pollInterval = 0
    /\ phase = "new"
    /\ currentToken = NoToken
    /\ authFailedPermanently = FALSE
    /\ reloginAttempts = 0
    /\ cachedStatus = NullStatus
    /\ accessoryInfoUpdated = FALSE
    /\ hk = [door |-> "NONE", target |-> "NONE", light |-> FALSE,
             battery |-> 0, info |-> "placeholder"]
    /\ pollTimer = FALSE
    /\ confirmTimers = 0
    /\ tasks = EmptyBag
    /\ device = [door |-> "closed", light |-> "off", battery |-> 80,
                 ver |-> 0]
    /\ issued = 0
    /\ verLimit = MaxAuthVer
    /\ expiry = TRUE
    /\ malformed = FALSE
    /\ silent = FALSE
    /\ listing = NoListing
    /\ yielded = << >>
    /\ last = NoDone
    /\ loginCalls = 0
    /\ failedSince = 0
    /\ optimistic = 0 - 1
    /\ lastPoll = NullStatus

NextInterval == Constructor

SpecInterval == InitInterval /\ [][NextInterval]_vars

NextStart ==
    \/ DidFinishLaunching
    \/ InitializeLoginDone
    \/ ListDone
    \/ Tick
    \/ AnswerRead
    \/ ReadDone
    \/ LoginDone

SpecStart == InitStart /\ [][NextStart]_vars

\* from the launch to the poll loop, the light command and its
\* confirmation poll
NextCycle ==
    \/ DidFinishLaunching
    \/ Tick
    \/ ConfirmFire
    \/ phase = "running" /\ SetLightOn
    \/ AnswerRead
    \/ AnswerAction
    \/ ReadDone
    \/ ActDone
    \/ LoginDone

SpecCycle == InitCycle /\ [][NextCycle]_vars

\* the token expires and the device obeys once: a command can succeed on
\* its retry after a re-login
InitRetry == InitWith(TRUE, MaxRetryVer, FALSE) /\ credentials

\* the commands, the polls and the session, without the getters
NextRetry ==
    \/ Tick
    \/ ConfirmFire
    \/ SetTargetDoorState
    \/ SetLightOn
    \/ AnswerRead
    \/ AnswerAction
    \/ ReadDone
    \/ ActDone
    \/ LoginDone

SpecRetry == InitRetry /\ [][NextRetry]_vars

\* the poll loop while the token expires and the device rests; the
\* interval timer fires every pollInterval for as long as it is armed, and
\* every request settles (answer, network error, or the 10 s timeout)
InitLoop == InitWith(TRUE, MaxAuthVer, FALSE)

NextLoop ==
    \/ Tick
    \/ StopPolling
    \/ \E g \in GetterKinds : Get(g)
    \/ SetTargetDoorState
    \/ SetLightOn
    \/ AnswerRead
    \/ ReadDone
    \/ ActDone
    \/ LoginDone

\* the device rests with its door in any state, known to stateMap or not,
\* while polls and getters read it
InitDoor ==
    \E door \in DoorStrings : InitOf(1, door, FALSE, MaxAuthVer, FALSE)

NextDoor ==
    \/ Tick
    \/ \E g \in GetterKinds : Get(g)
    \/ AnswerRead
    \/ ReadDone

SpecDoor == InitDoor /\ [][NextDoor]_vars

\* an accessory whose platform has a token, or has none
InitToken ==
    \E token \in {NoToken, 1} : InitFrom(token, TRUE, MaxAuthVer, FALSE)

SpecToken == InitToken /\ [][NextLoop]_vars

SpecLoop ==
    /\ InitLoop
    /\ [][NextLoop]_vars
    /\ SF_vars(Tick)
    /\ WF_vars(ReadDone)
    /\ WF_vars(ActDone)
    /\ WF_vars(LoginDone)

\* from some moment on the server answers nothing: no request gets a
\* response any more, and what is left to each is its 10 s timeout
GoSilent ==
    /\ ~silent
    /\ silent' = TRUE
    /\ Quiet
    /\ UNCHANGED <<platformVars, cachedStatus, accessoryInfoUpdated, hk,
                   pollTimer, confirmTimers, tasks, device, issued,
                   verLimit, expiry, malformed, credentials, bootVars,
                   loginCalls, failedSince, optimistic, lastPoll>>

InitSilent == InitWith(TRUE, MaxRetryVer, FALSE) /\ credentials

\* the invocations that the server's silence finds in flight: every
\* request's timer fires 10 s after the socket went idle, whatever the
\* other invocations do
NextSilent ==
    \/ GoSilent
    \/ ~silent /\ Tick
    \/ ~silent /\ Get("getCurrentDoorState")
    \/ ~silent /\ SetLightOn
    \/ ConfirmFire
    \/ AnswerRead
    \/ AnswerAction
    \/ ReadDone
    \/ ActDone
    \/ LoginDone

SpecSilent ==
    /\ InitSilent
    /\ [][NextSilent]_vars
    /\ WF_vars(ReadDone)
    /\ WF_vars(ActDone)
    /\ WF_vars(LoginDone)

\* ================================================================= claims
ReadsInFlight ==
    BagCardinality([t \in {u \in Live : u.pc \in {"read1", "read2"}}
                        |-> tasks[t]])
LoginsInFlight ==
    BagCardinality([t \in {u \in Live : u.pc = "login"} |-> tasks[t]])

\* the step finished an invocation of one of these kinds
Finished(kinds) == last'.kind \in kinds

\* C1: with email/password configured and every login failing, at most
\* maxReloginAttempts performLogin calls are ever started.
C1_AtMostThreeLogins ==
    (credentials /\ issued = 1) => loginCalls <= maxReloginAttempts

\* C2: once authFailedPermanently is true it is true in every later state.
C2_FailedForGood ==
    [][authFailedPermanently => authFailedPermanently']_vars

\* a re-login succeeded after the circuit breaker had opened
C2_Witness ==
    credentials /\ authFailedPermanently /\ failedSince = 0 /\ issued > 1

\* C3 as written: a poll answered 401/403 while credentials are configured
\* makes exactly one login call.
C3_AlwaysOneLogin ==
    (credentials /\ last.kind \in PollKinds /\ last.recov # "none")
        => last.logins = 1

\* C3 as amended: a poll answered 401/403 while credentials are configured
\* and authFailedPermanently is false makes exactly one login call and, if
\* it succeeds, exactly one further read; no poll makes a second login or a
\* third read; a poll that fails leaves cachedStatus as it was, one that
\* succeeds replaces it.
C3_LiveCounts ==
    \A t \in Live :
        t.kind \in PollKinds =>
            /\ t.pc = "read1" => t.logins = 0 /\ t.reads = 1
            /\ t.pc = "login" => t.logins = 1 /\ t.reads = 1
            /\ t.pc = "read2" => t.logins = 1 /\ t.reads = 2

C3_DoneCounts ==
    (last.kind \in PollKinds /\ last.recov # "none") =>
        /\ last.recov = "throw" => authFailedPermanently /\ last.logins = 0
        /\ last.recov = "nocreds" => ~credentials /\ last.logins = 0
        /\ last.recov \in {"loginfail", "loginlost"} =>
                last.logins = 1 /\ last.reads = 1 /\ ~last.ok
        /\ last.recov = "loginok" => last.logins = 1 /\ last.reads = 2
        /\ last.recov \in {"throw", "nocreds", "loginfail", "loginlost",
                           "loginok"}

C3_CacheStep ==
    Finished(PollKinds) =>
        IF last'.ok THEN cachedStatus' = lastPoll' /\ cachedStatus' # NullStatus
        ELSE cachedStatus' = cachedStatus

C3_OneLoginOneRetry ==
    /\ [](C3_LiveCounts /\ C3_DoneCounts)
    /\ [][C3_CacheStep]_vars

\* a poll finished after one login and one further read
C3_Witness ==
    last.kind = "tick" /\ last.recov = "loginok" /\ last.reads = 2

\* C4: right after a door command succeeded, and before any poll completes,
\* getCurrentDoorState answers the optimistic state of the command.
C4_ReadsOptimistic ==
    (optimistic >= 0 /\ cachedStatus # NullStatus)
        => GetterRet("getCurrentDoorState", cachedStatus) = {hk.door}

\* C5: a confirmation poll the device answers stores that answer in the
\* cache (so 'open' when the device reports 'open') and is followed by
\* exactly one pushStateToHomeKit, which presents the stored state.
C5_ConfirmStep ==
    \A t \in Live :
        (t.kind = "confirm" /\ t.resp.status = 200 /\ tasks' = Remove(t)) =>
            /\ cachedStatus' = t.resp.body
            /\ last'.pushes = 1
            /\ t.resp.body.door # "null" =>
                    hk'.door = DoorStateMap(t.resp.body.door)

C6_WholeSnapshot ==
    /\ cachedStatus = lastPoll
    /\ (last.kind \in GetterKinds /\ last.ok) =>
            last.ret = GetterRet(last.kind, lastPoll)
    /\ lastPoll # NullStatus =>
            /\ lastPoll.door # "null" =>
                    GetterRet("getCurrentDoorState", cachedStatus)
                        = {DoorStateMap(lastPoll.door)}
            /\ GetterRet("getLightOn", cachedStatus) = {IsOn(lastPoll.light)}
            /\ GetterRet("getBatteryLevel", cachedStatus) = {lastPoll.battery}

\* the poll that succeeded last was answered with the device's second
\* state (light on, 79 %) and the device has moved since: the getters
\* answer from that response
C6_Witness ==
    /\ last.kind \in PollKinds /\ last.ok
    /\ lastPoll.ver = 1 /\ device.ver = 2 /\ lastPoll.light = "on"
    /\ GetterRet("getLightOn", cachedStatus) = {TRUE}
    /\ GetterRet("getBatteryLevel", cachedStatus) = {79}

\* C7: at most one getDeviceStatus request is in flight at any time.
C7_OneReadInFlight == ReadsInFlight <= 1

\* C8: a poll whose response is older than the door command that was
\* acknowledged does not change the optimistic CurrentDoorState.
C8_StaleStep ==
    \A t \in Live :
        (/\ optimistic >= 0
         /\ t.kind \in PollKinds
         /\ t.resp.status = 200
         /\ t.resp.body.ver < optimistic
         /\ tasks' = Remove(t)) => hk'.door = hk.door

C8_OptimisticNotOverwritten == [][C8_StaleStep]_vars

\* C9: reloginAttempts counts the re-logins that failed since the last
\* successful one (and those still in flight).
C9_CountsFailures == reloginAttempts = failedSince + LoginsInFlight

\* C10: with authFailedPermanently set, handleAuthError throws at once: no
\* login is started, and reloginAttempts, the token and the credential
\* store stay as they are.
C10_Step ==
    authFailedPermanently =>
        /\ LoginsInFlight' <= LoginsInFlight
        /\ last'.recov = "throw" =>
              /\ ~last'.ok
              /\ UNCHANGED <<reloginAttempts, currentToken, bearerToken,
                             storage, issued, loginCalls>>

C10_FailsFast == [][C10_Step]_vars

\* a request was answered 401/403 after the circuit breaker had opened
C10_Witness ==
    credentials /\ authFailedPermanently /\ last.recov = "throw"

\* C11: without email or password, the first 401/403 handed to
\* handleAuthError sets authFailedPermanently, starts no login, leaves
\* reloginAttempts and the tokens as they are, and the caller's operation
\* fails after its single request.
C11_NoLogin ==
    ~credentials =>
        /\ LoginsInFlight = 0 /\ loginCalls = 0 /\ reloginAttempts = 0
        /\ last.recov \in {"none", "nocreds", "throw"}
        /\ last.recov = "throw" => authFailedPermanently

C11_Step ==
    last'.recov = "nocreds" =>
        /\ ~credentials /\ ~authFailedPermanently /\ authFailedPermanently'
        /\ ~last'.ok /\ last'.logins = 0 /\ last'.reads + last'.sends = 1
        /\ UNCHANGED <<reloginAttempts, currentToken, bearerToken, storage,
                       issued, loginCalls>>

C11_ManualTokenMode == []C11_NoLogin /\ [][C11_Step]_vars

\* a command was answered 401/403 in manual-token-only mode
C11_Witness ==
    /\ ~credentials /\ authFailedPermanently
    /\ last.kind \in CmdKinds /\ last.recov = "nocreds" /\ last.sends = 1

\* C12: while authFailedPermanently is true every read fails: no getter
\* answers a value from the cache.
C12_StandingFailure ==
    (authFailedPermanently /\ cachedStatus # NullStatus) =>
        \A g \in GetterKinds : GetterRet(g, cachedStatus) = {}

\* C13: a pollDeviceState that fails (no 200 on its last request, or a
\* failed recovery) leaves cachedStatus as it was, so every getter answers
\* what it answered before.
C13_Step ==
    \A t \in Live :
        (/\ t.kind \notin CmdKinds
         /\ t.resp.status # 200
         /\ tasks' = Remove(t)) =>
            /\ cachedStatus' = cachedStatus
            /\ \A g \in GetterKinds :
                    GetterRet(g, cachedStatus') = GetterRet(g, cachedStatus)

C13_FailedPollKeepsCache == [][C13_Step]_vars

\* the retry after a successful re-login failed while a snapshot was cached
C13_Witness ==
    /\ last.kind = "tick" /\ ~last.ok
    /\ last.recov = "loginok" /\ last.reads = 2
    /\ cachedStatus # NullStatus /\ cachedStatus = lastPoll

\* C14: a getter starts a pollDeviceState only when no snapshot is cached,
\* and then exactly one (one request, or two around one re-login); what
\* it answers is read from the cache.
C14_Live ==
    \A t \in Live :
        t.kind \in GetterKinds =>
            /\ t.reads = (IF t.pc = "read2" THEN 2 ELSE 1)
            /\ t.logins = (IF t.pc = "read1" THEN 0 ELSE 1)

C14_Step ==
    /\ \A t \in BagToSet(tasks') :
            (t.kind \in GetterKinds /\ tasks' = Add(t)) =>
                /\ cachedStatus = NullStatus
                /\ t.pc = "read1" /\ t.reads = 1 /\ Pending(t)
    /\ Finished(GetterKinds) =>
            /\ last'.reads \in {1, 2} /\ last'.logins <= 1
            /\ last'.ok => /\ cachedStatus' # NullStatus
                           /\ last'.ret = GetterRet(last'.kind, cachedStatus')

C14_ColdStartOnly == []C14_Live /\ [][C14_Step]_vars

\* a getter called without a snapshot answered after its one poll
C14_Witness ==
    /\ last.kind = "getLightOn" /\ last.ok /\ last.reads = 1
    /\ last.ret = {FALSE} /\ cachedStatus # NullStatus

\* C15: whatever a poll throws, the interval timer stays armed (only
\* stopPolling disarms it) and, unless stopPolling is called, the interval
\* callback starts another pollDeviceState again and again.
C15_OnlyStopDisarms == (pollTimer /\ ~pollTimer') => StopPolling

C15_LoopSurvives ==
    /\ [][C15_OnlyStopDisarms]_vars
    /\ ([]<><<Tick>>_vars \/ <>[](~pollTimer))

\* an interval poll ran into the permanent authentication failure and the
\* timer is still armed
C15_Witness ==
    /\ pollTimer /\ authFailedPermanently
    /\ last.kind = "tick" /\ ~last.ok /\ last.recov = "throw"

\* C16: a command sends its action at most twice and starts at most one
\* login; the second send follows a login that succeeded in the same step,
\* and a failure of the second send starts no recovery.
C16_Live ==
    \A t \in Live :
        t.kind \in CmdKinds =>
            /\ t.pc = "act1" => t.sends = 1 /\ t.logins = 0
            /\ t.pc = "login" => t.sends = 1 /\ t.logins = 1
            /\ t.pc = "act2" =>
                    t.sends = 2 /\ t.logins = 1 /\ t.recov = "loginok"

C16_Done ==
    last.kind \in CmdKinds =>
        /\ last.sends <= 2 /\ last.logins <= 1
        /\ last.sends = 2 => last.logins = 1 /\ last.recov = "loginok"

C16_Step ==
    \A u \in BagToSet(tasks') :
        (/\ u.kind \in CmdKinds /\ u.pc = "act2"
         /\ Pending(u) /\ u \notin Live) =>
            /\ issued' = issued + 1 /\ currentToken' = issued'
            /\ \E t \in Live : /\ t.kind = u.kind /\ t.pc = "login"
                                /\ tasks' = Replace(t, u)

C16_SendsAtMostTwice == [](C16_Live /\ C16_Done) /\ [][C16_Step]_vars

\* a door command succeeded on its second send, after its one login
C16_Witness ==
    /\ last.kind = "setTargetDoorState" /\ last.ok
    /\ last.sends = 2 /\ last.logins = 1

\* C17: every command that succeeds schedules one confirmation poll, and
\* a door command applies its optimistic state.
C17_Step ==
    (Finished(CmdKinds) /\ last'.ok) =>
        /\ confirmTimers' = confirmTimers + 1
        /\ last'.kind = "setTargetDoorState" =>
                hk'.door \in {"OPENING", "CLOSING"}

C17_SuccessSchedulesConfirm == [][C17_Step]_vars

\* C18: a failure that is not a 401/403 rejection (of a read, of an action
\* or of the login of a recovery) leaves reloginAttempts and
\* authFailedPermanently unchanged.
C18_Step ==
    (\/ last'.recov = "loginlost"
     \/ last'.kind # "none" /\ ~last'.ok /\ last'.recov = "none") =>
        UNCHANGED <<reloginAttempts, authFailedPermanently>>

C18_TransientInert == [][C18_Step]_vars

\* C19: a 200 whose body lacks door.state counts as a failed poll and does
\* not replace the cached snapshot.
C19_Step ==
    \A t \in Live :
        (/\ t.pc \in {"read1", "read2"}
         /\ t.resp.status = 200
         /\ t.resp.body.door = "null"
         /\ tasks' = Remove(t)) =>
            cachedStatus' = cachedStatus /\ ~last'.ok

C19_MalformedIsFailure == [][C19_Step]_vars

\* C20: from a snapshot without door.state both door getters throw.
C20_NoDefaultDoor ==
    (cachedStatus # NullStatus /\ cachedStatus.door = "null") =>
        /\ GetterRet("getCurrentDoorState", cachedStatus) = {}
        /\ GetterRet("getTargetDoorState", cachedStatus) = {}

\* C21: autoDiscoverDevice with one listed device sets deviceId to it and
\* stores it; with two or more (a bare array of 2 devices included) it
\* reports them all, leaves deviceId alone and stores nothing; with none,
\* or a failed listing, deviceId is unchanged.
C21_Step ==
    (phase = "list" /\ listing' # listing) =>
        LET devs == IF listing'.status = 200 THEN listing'.devs
                    ELSE << >> IN
        /\ Len(devs) = 1 =>
              /\ deviceId' = devs[1]
              /\ storage' = [bearerToken |-> bearerToken,
                             deviceId |-> devs[1]]
        /\ Len(devs) >= 2 =>
              /\ yielded' = devs
              /\ deviceId' = deviceId
              /\ storage' = storage
        /\ Len(devs) = 0 => deviceId' = deviceId

C21_AutoDiscover == [][C21_Step]_vars

\* C22: a 200 listing that is a bare array of devices, or that array
\* wrapped as {data: [...]}, yields exactly those devices in that order,
\* from the platform's discoverAllDevices and from the UI server's
\* discoverOmletDevices.
C22_SameDevices ==
    (listing.status = 200 /\ listing.shape \in {"devices", "data"}) =>
        /\ yielded = listing.devs
        /\ DiscoverOmletDevices(listing.shape, listing.devs) =
              [ok |-> TRUE, devices |-> listing.devs]

\* C23: the constructed pollInterval is clamp(n, 30, 300) * 1000 for an
\* integer n, 30000 for an absent or non-numeric value, and always within
\* [30000, 300000].
C23_Clamp(n, lo, hi) == IF n < lo THEN lo ELSE IF n > hi THEN hi ELSE n

C23_Clamped ==
    phase # "new" =>
        LET value == config.pollInterval IN
        /\ value.kind = "int" =>
              pollInterval = C23_Clamp(value.n, 30, 300) * 1000
        /\ value.kind \in {"absent", "text"} => pollInterval = 30000
        /\ pollInterval >= 30000
        /\ pollInterval <= 300000

C23_Witness ==
    /\ phase # "new"
    /\ config.pollInterval = [kind |-> "int", n |-> 10000]
    /\ pollInterval = 300000

\* C24: the launch step reads the credential store before initialize: a
\* valid stored token or deviceId replaces the configured one, an absent or
\* invalid one leaves it, and with a valid token initialize makes no login
\* and uses that token.
C24_Step ==
    (phase = "launch" /\ phase' # "launch") =>
        /\ storage.bearerToken = StoredToken => bearerToken' = StoredToken
        /\ storage.bearerToken \in {NoToken, BadToken} =>
              bearerToken' = bearerToken
        /\ storage.deviceId = StoredDevice => deviceId' = StoredDevice
        /\ storage.deviceId \in {NoDevice, BadDevice} =>
              deviceId' = deviceId
        /\ bearerToken' # NoToken =>
              /\ phase' # "login"
              /\ currentToken' = bearerToken'
              /\ \A t \in BagToSet(tasks') : t.tok = bearerToken'

C24_NoLogin ==
    phase = "login" =>
        /\ config.bearerToken \in {NoToken, BadToken}
        /\ storage.bearerToken \in {NoToken, BadToken}

C24_StoreFirst == []C24_NoLogin /\ [][C24_Step]_vars

\* the stored token replaced the configured one and the first poll carries
\* it, no login made
C24_Witness ==
    /\ phase = "running" /\ issued = 0
    /\ config.bearerToken = ConfigToken
    /\ bearerToken = StoredToken /\ currentToken = StoredToken
    /\ \E t \in Live : t.kind = "first" /\ t.tok = StoredToken

\* C25: a step in which a login succeeds or auto-discovery sets deviceId
\* writes the store, which then holds the in-memory token and deviceId.
C25_Step ==
    (\/ issued' # issued
     \/ phase = "list" /\ deviceId' # deviceId) =>
        /\ storage' = [bearerToken |-> bearerToken',
                       deviceId |-> deviceId']
        /\ currentToken' = bearerToken'

C25_StoreFollows == [][C25_Step]_vars

\* a login at startup, a discovered device and a later re-login, all stored
C25_Witness ==
    /\ issued = 2 /\ deviceId \in 1..MaxListed
    /\ storage = [bearerToken |-> 2, deviceId |-> deviceId]
    /\ currentToken = 2

\* C26: once the interval timer is cleared no pollDeviceState is started
\* by a timer any more, a pending confirmation poll included.
C26_Step ==
    ~pollTimer =>
        \A t \in BagToSet(tasks') :
            (t.kind \in PollKinds /\ t.pc = "read1" /\ Pending(t)) =>
                CopiesIn(t, tasks') <= CopiesIn(t, tasks)

C26_Stoppable == [][C26_Step]_vars

\* C28: a door getter whose cold-start poll failed (no 200, a failed
\* recovery, or a 200 without door.state) fails: it answers no value.
C28_Step ==
    \A t \in Live :
        (/\ t.kind \in {"getCurrentDoorState", "getTargetDoorState"}
         /\ tasks' = Remove(t)
         /\ (t.resp.status # 200 \/ t.resp.body.door = "null")) =>
            ~last'.ok /\ last'.ret = {}

C28_ColdStartFails == [][C28_Step]_vars

\* C29: a config with a valid token and neither email/password nor
\* deviceId starts the plugin: the launch handler is registered.
C29_TokenOnlyStarts ==
    (/\ config.bearerToken = ConfigToken
     /\ config.deviceId = NoDevice
     /\ ~credentials) => phase # "off"

\* C30: when the listing yields several devices and no deviceId is
\* configured, the first listed device is selected and the accessory is
\* created for it.
C30_FirstDeviceSelected ==
    (/\ listing.status = 200
     /\ Len(yielded) >= 2
     /\ config.deviceId = NoDevice) =>
        /\ deviceId = yielded[1]
        /\ phase = "running"

\* C27: once the server answers nothing any more, every invocation in
\* flight (poll, getter, command, handleAuthError's login) comes to its
\* end: none is left waiting.
C27_NoUnboundedWait == silent ~> (tasks = EmptyBag)

\* a handleAuthError whose login got no answer ended by its timeout
C27_Witness ==
    /\ silent
    /\ last.kind # "none" /\ ~last.ok
    /\ last.recov = "loginlost"

\* C31: the first successful refresh, direct or on the retry after a
\* recovery, latches serial and firmware: a cached snapshot implies
\* accessoryInfoUpdated, and the flag never goes back to false.
C31_Cached == cachedStatus # NullStatus => accessoryInfoUpdated

C31_Step == accessoryInfoUpdated => accessoryInfoUpdated'

C31_LatchedByFirstSuccess == []C31_Cached /\ [][C31_Step]_vars

\* C40: reloginAttempts stays within 0..maxReloginAttempts.
C40_AttemptsBounded ==
    reloginAttempts >= 0 /\ reloginAttempts <= maxReloginAttempts

\* C32: accessoryInfoUpdated becomes true only in a step that leaves the
\* serial and firmware of a real response in the accessory information,
\* and once they are there no default replaces them.
C32_Step ==
    /\ (~accessoryInfoUpdated /\ accessoryInfoUpdated') =>
            hk'.info = "real"
    /\ (accessoryInfoUpdated /\ hk.info = "real") => hk'.info = "real"

C32_LatchedFromRealResponse == [][C32_Step]_vars

\* C33: the step that arms the interval timer starts the first poll, no
\* other step starts one, and a poll of the loop or of a confirmation
\* timer pushes once when it succeeded and nothing when it failed.
C33_Fresh(t) == t.pc = "read1" /\ Pending(t) /\ t.logins = 0

C33_Step ==
    /\ (~pollTimer /\ pollTimer') =>
            \E t \in BagToSet(tasks') : t.kind = "first" /\ C33_Fresh(t)
    /\ \A t \in BagToSet(tasks') :
            (/\ t.kind = "first" /\ C33_Fresh(t)
             /\ CopiesIn(t, tasks') > CopiesIn(t, tasks)) =>
                ~pollTimer /\ pollTimer'
    /\ Finished(PollKinds) =>
            /\ last'.pushes = (IF last'.ok THEN 1 ELSE 0)
            /\ [hk' EXCEPT !.info = hk.info] =
                    (IF last'.ok THEN Pushed(cachedStatus', hk) ELSE hk)

C33_PushAfterSuccess == [][C33_Step]_vars

\* a confirmation poll succeeded and pushed, in a loop started by the
\* launch
C33_Witness ==
    /\ phase = "running" /\ config.bearerToken = ConfigToken
    /\ last.kind = "confirm" /\ last.ok /\ last.pushes = 1

\* C34: a getDeviceStatus or sendAction called while the platform has no
\* token sends nothing (no response ever comes for it, no recovery starts)
\* and is rejected: its invocation fails and leaves the token,
\* reloginAttempts, authFailedPermanently and cachedStatus as they were.
C34_NothingSent ==
    \A t \in Live :
        t.tok = NoToken =>
            Pending(t) /\ t.pc \in {"read1", "act1"} /\ t.logins = 0

C34_Step ==
    \A t \in Live :
        t.tok = NoToken =>
            /\ tasks' = Remove(t) =>
                    /\ ~last'.ok
                    /\ UNCHANGED <<currentToken, reloginAttempts,
                                   authFailedPermanently, cachedStatus>>
            /\ t \in BagToSet(tasks') \/ tasks' = Remove(t)

C34_RejectsWithoutToken == []C34_NothingSent /\ [][C34_Step]_vars

\* a light command called without a token was rejected
C34_Witness ==
    /\ currentToken = NoToken
    /\ last.kind = "setLightOn" /\ ~last.ok /\ last.sends = 1
    /\ reloginAttempts = 0 /\ ~authFailedPermanently

\* C35: open, closed, opening and closing map to their own state, stopping
\* and every other door-state string to STOPPED; the target is OPEN for
\* open and opening and CLOSED otherwise; getters and push agree.
C35_Current(door) ==
    IF door = "open" THEN "OPEN"
    ELSE IF door = "closed" THEN "CLOSED"
    ELSE IF door = "opening" THEN "OPENING"
    ELSE IF door = "closing" THEN "CLOSING"
    ELSE "STOPPED"

C35_Target(door) == IF door \in {"open", "opening"} THEN "OPEN" ELSE "CLOSED"

C35_Getters ==
    (cachedStatus # NullStatus /\ cachedStatus.door # "null") =>
        /\ GetterRet("getCurrentDoorState", cachedStatus) =
                {C35_Current(cachedStatus.door)}
        /\ GetterRet("getTargetDoorState", cachedStatus) =
                {C35_Target(cachedStatus.door)}

C35_Step ==
    /\ (Finished(PollKinds) /\ last'.ok /\ cachedStatus'.door # "null") =>
            /\ hk'.door = C35_Current(cachedStatus'.door)
            /\ hk'.target = C35_Target(cachedStatus'.door)
    /\ \A t \in Live :
            (/\ t.kind \in {"getCurrentDoorState", "getTargetDoorState"}
             /\ tasks' = Remove(t)
             /\ t.resp.status = 200
             /\ t.resp.body.door # "null") =>
                /\ last'.ok
                /\ last'.ret = (IF t.kind = "getCurrentDoorState"
                                THEN {C35_Current(t.resp.body.door)}
                                ELSE {C35_Target(t.resp.body.door)})

C35_TotalMapping == []C35_Getters /\ [][C35_Step]_vars

\* a door state that stateMap does not have was pushed as STOPPED / CLOSED
C35_Witness ==
    /\ cachedStatus # NullStatus /\ cachedStatus.door = "jammed"
    /\ last.kind \in PollKinds /\ last.ok
    /\ hk.door = "STOPPED" /\ hk.target = "CLOSED"

\* C36: cachedStatus never comes to hold an observation of the device
\* that is older than the one it held.
C36_Step ==
    (cachedStatus # NullStatus /\ cachedStatus' # NullStatus) =>
        cachedStatus'.ver >= cachedStatus.ver

C36_NeverRegresses == [][C36_Step]_vars

\* C37: a command that fails (its request failed without a 401/403, its
\* recovery failed, or its retry failed) reports the failure, leaves the
\* characteristics and cachedStatus as they were and schedules no
\* confirmation poll.
C37_Step ==
    \A t \in Live :
        (t.kind \in CmdKinds /\ tasks' = Remove(t) /\ t.resp.status # 200) =>
            /\ last'.kind = t.kind /\ ~last'.ok
            /\ hk' = hk
            /\ cachedStatus' = cachedStatus
            /\ confirmTimers' = confirmTimers /\ last'.timers = 0

C37_FailedCommandInert == [][C37_Step]_vars

\* a door command failed on its retry after a successful re-login
C37_Witness ==
    /\ last.kind = "setTargetDoorState" /\ ~last.ok
    /\ last.recov = "loginok" /\ last.sends = 2
    /\ hk.door \notin {"OPENING", "CLOSING"}

\* C38: the retry after a successful re-login carries the token that this
\* login, the last one to have succeeded, was given, and not the token of
\* the rejected request.
C38_Step ==
    \A u \in BagToSet(tasks') :
        (u.pc \in {"read2", "act2"} /\ Pending(u) /\ u \notin Live) =>
            /\ issued' = issued + 1
            /\ u.tok = issued' /\ u.tok = currentToken'
            /\ \E t \in Live : /\ t.pc = "login"
                                /\ tasks' = Replace(t, u)
                                /\ u.tok # t.tok

C38_RetryWithNewToken == [][C38_Step]_vars

\* two recoveries overlapped and each retry carries the token of its login
C38_Witness ==
    \E t, u \in Live :
        /\ t.pc = "read2" /\ u.pc \in {"read2", "act2"}
        /\ t.tok = 1 /\ u.tok = 2 /\ currentToken = 2

\* C39: the accessory and its loop exist only with a token and a deviceId:
\* they are created in a step that ends with both set, and as long as the
\* platform has not got there (no launch handler, failed startup login, no
\* single device discovered) no timer is armed and no request is made.
C39_Both ==
    /\ phase = "running" => currentToken # NoToken /\ deviceId # NoDevice
    /\ phase # "running" => tasks = EmptyBag /\ ~pollTimer
    /\ \A t \in Live : t.tok # NoToken

C39_Step ==
    /\ phase \in {"off", "stopped"} => phase' = phase
    /\ (phase # "running" /\ phase' = "running") =>
            /\ currentToken' # NoToken /\ deviceId' # NoDevice
            /\ pollTimer'

====
